---- MODULE Spec2Model ----
(***************************************************************************)
(* A model of PGBackend (src/core/db/backend/pg.py): the identifier check, *)
(* the connection handling, execute_sql and every operation built on it,   *)
(* run against a model of the PostgreSQL server the statements are sent    *)
(* to.  Strings are sequences of one-character strings, so that the        *)
(* regular expression, str.split and str.join are computed and not         *)
(* assumed.                                                                *)
(***************************************************************************)
EXTENDS Integers, Sequences, FiniteSets, TLC

VARIABLES
    db,          \* the server's catalog and the session's transaction status
    dirs,        \* the repos that have a directory /user_data/<user>/<repo>
    connection,  \* self.connection: [db, closed]
    repo_base,   \* self.repo_base
    sessions,    \* server sessions opened by this instance that are still live
    call,        \* the operation that has just returned or raised, with its
                 \* arguments; NoCall once the caller has taken the result
    outcome,     \* how it ended: [exc, cause], exc = "" for a normal return
    sent,        \* the statements it sent to the server, in order
    validated    \* the strings that passed _check_for_injections during it

vars == <<db, dirs, connection, repo_base, sessions, call, outcome, sent, validated>>

-----------------------------------------------------------------------------
(* Bounds *)

\* longest string handed to the identifier check on its own
MaxLen == 3
\* longest query string handed to export_query
MaxQueryLen == 3
\* most rows a table holds
MaxRows == 1
\* most server sessions this instance may have live at once
MaxSessions == 2

-----------------------------------------------------------------------------
(* Characters and strings *)

Upper == {"A","B","C","D","E","F","G","H","I","J","K","L","M",
          "N","O","P","Q","R","S","T","U","V","W","X","Y","Z"}
Lower == {"a","b","c","d","e","f","g","h","i","j","k","l","m",
          "n","o","p","q","r","s","t","u","v","w","x","y","z"}
Digits == {"0","1","2","3","4","5","6","7","8","9"}

\* \w of a Python 2 pattern compiled without re.UNICODE or re.LOCALE
WordChars == Upper \cup Lower \cup Digits \cup {"_"}
\* [\-\_]
HyphenUnderscore == {"-", "_"}
\* [\w\-\_]
NounChars == WordChars \cup HyphenUnderscore

Whitespace == {" ", "\n"}

\* the characters the strings of the validator's own specification are drawn from
Alphabet == {"a", "Z", "1", "-", "_", "\n", " "}

RECURSIVE Strings(_, _)
Strings(chars, n) ==
    IF n = 0 THEN {<<>>}
    ELSE LET shorter == Strings(chars, n - 1)
         IN  shorter \cup {Append(s, c) : s \in shorter, c \in chars}

\* the regular expression of _check_for_injections, matched at position 0:
\* ^(?![\-\_])[\w\-\_]+(?<![\-\_])$  where $ matches at the end of the string
\* and also just before a newline that ends the string
RegexMatches(noun) ==
    /\ Len(noun) >= 1
    /\ noun[1] \notin HyphenUnderscore
    /\ \E k \in 1..Len(noun) :
          /\ \A i \in 1..k : noun[i] \in NounChars
          /\ noun[k] \notin HyphenUnderscore
          /\ \/ k = Len(noun)
             \/ k = Len(noun) - 1 /\ noun[Len(noun)] = "\n"

\* str.split(sep) for a one-character separator
RECURSIVE split(_, _)
split(s, sep) ==
    IF \A i \in 1..Len(s) : s[i] # sep THEN <<s>>
    ELSE LET i == CHOOSE i \in 1..Len(s) :
                      s[i] = sep /\ \A j \in 1..(i - 1) : s[j] # sep
         IN  <<SubSeq(s, 1, i - 1)>> \o split(SubSeq(s, i + 1, Len(s)), sep)

\* sep.join(list)
RECURSIVE join(_, _)
join(sep, list) ==
    IF list = <<>> THEN <<>>
    ELSE IF Len(list) = 1 THEN list[1]
    ELSE list[1] \o sep \o join(sep, Tail(list))

\* the server's lexer skips the whitespace around a token
RECURSIVE Strip(_)
Strip(s) ==
    IF s = <<>> THEN s
    ELSE IF s[1] \in Whitespace THEN Strip(Tail(s))
    ELSE IF s[Len(s)] \in Whitespace THEN Strip(SubSeq(s, 1, Len(s) - 1))
    ELSE s

Range(s) == {s[i] : i \in 1..Len(s)}

-----------------------------------------------------------------------------
(* Names and literals *)

\* a name the identifier check accepts, used for repos, roles and tables
NameA == <<"a">>
\* a name it rejects: a leading underscore
NameBad == <<"_", "a">>
\* self.user, the login name given to the constructor
Owner == <<"o">>
\* the database the instance is constructed on, whose catalog db describes,
\* and a database that does not exist
BaseDb == <<"b">>
MissingDb == <<"z">>
\* the schema an unqualified table name resolves to
PUBLIC == <<"p","u","b","l","i","c">>

CSV == <<"C","S","V">>
HEADER == <<"H","E","A","D","E","R">>
CASCADE == <<"C","A","S","C","A","D","E">>
RESTRICT == <<"R","E","S","T","R","I","C","T">>
NULL == <<"N","U","L","L">>
SELECT == <<"S","E","L","E","C","T">>
INSERT == <<"I","N","S","E","R","T">>
USAGE == <<"U","S","A","G","E">>
ALL == <<"A","L","L">>
EmptyStr == <<>>
Comma == <<",">>
CommaSpace == <<",", " ">>
Path == <<"/", "f">>
Password == <<"p", "'", ";">>
Encoding == <<"L","1">>
Quote == <<"\"">>

-----------------------------------------------------------------------------
(* Statement parameters, as psycopg2 adapts them *)

\* AsIs(v): v is written into the statement text as it is.  from: the
\* caller-supplied strings v is made of (none for a literal of the code)
AsIs(v, from) == [k |-> "AsIs", v |-> v, from |-> from]
\* a str parameter: bound as a quoted literal
Bound(v) == [k |-> "str", v |-> v, from |-> {}]
\* None
None == [k |-> "None", v |-> EmptyStr, from |-> {}]

\* what reaches the server for one parameter: a literal value, or raw text;
\* None is adapted to the raw text NULL
Adapt(p) ==
    CASE p.k = "str"  -> [lit |-> TRUE, text |-> p.v]
      [] p.k = "None" -> [lit |-> FALSE, text |-> NULL]
      [] OTHER        -> [lit |-> FALSE, text |-> p.v]

Mogrify(params) == [i \in 1..Len(params) |-> Adapt(params[i])]

-----------------------------------------------------------------------------
(* The server: lexing *)

Word(f) == Strip(f.text)

\* an unquoted identifier of the server's lexer
IsPgIdent(w) ==
    /\ w # <<>>
    /\ w[1] \in Upper \cup Lower \cup {"_"}
    /\ \A i \in 1..Len(w) : w[i] \in WordChars

IsIdent(f) == ~f.lit /\ IsPgIdent(Word(f))

\* a comma-separated list of words
PrivList(f) == LET parts == split(f.text, ",")
               IN  {Strip(parts[i]) : i \in 1..Len(parts)}

TablePrivileges == {SELECT, INSERT, ALL}

\* WITH <format> <header>: the format keyword, then HEADER or nothing
CopyOptionsOk(fmt, hdr) ==
    /\ ~fmt.lit /\ Word(fmt) = CSV
    /\ ~hdr.lit /\ Word(hdr) \in {HEADER, EmptyStr}

SyntaxOk(tmpl, a) ==
    CASE tmpl = "CREATE_SCHEMA" -> IsIdent(a[1]) /\ IsIdent(a[2])
      [] tmpl = "DROP_SCHEMA" ->
            IsIdent(a[1]) /\ ~a[2].lit /\ Word(a[2]) \in {CASCADE, RESTRICT, EmptyStr}
      [] tmpl = "ADD_COLLABORATOR" ->
            /\ IsIdent(a[1]) /\ IsIdent(a[2])
            /\ \A w \in PrivList(a[3]) : IsPgIdent(w)
      [] tmpl = "DELETE_COLLABORATOR" -> IsIdent(a[1]) /\ IsIdent(a[2])
      [] tmpl = "CREATE_ROLE" -> IsIdent(a[1]) /\ a[2].lit
      [] tmpl \in {"CREATE_DATABASE", "DROP_DATABASE", "DROP_ROLE",
                   "DROP_TABLE_IF_EXISTS"} -> IsIdent(a[1])
      [] tmpl = "ALTER_DATABASE_OWNER" -> IsIdent(a[1]) /\ IsIdent(a[2])
      [] tmpl = "ALTER_ROLE_PASSWORD" -> IsIdent(a[1]) /\ a[2].lit
      [] tmpl = "COPY_TABLE_TO" -> IsIdent(a[1]) /\ CopyOptionsOk(a[3], a[4])
      [] tmpl = "COPY_QUERY_TO" -> CopyOptionsOk(a[3], a[4])
      [] tmpl = "COPY_FROM" -> IsIdent(a[1]) /\ CopyOptionsOk(a[3], a[4])
      [] tmpl \in {"CREATE_TABLE", "INSERT"} -> IsIdent(a[1]) /\ IsIdent(a[2])
      [] OTHER -> TRUE

-----------------------------------------------------------------------------
(* The server: execution *)

\* db = [schemas, tables, roles, databases, grants, tx]
\*   schemas:   the schemas created in the base database, all owned by Owner
\*   tables:    [schema, name, rows]
\*   roles:     the login roles created besides Owner
\*   databases: the databases created besides BaseDb
\*   grants:    [repo, user, kind], kind one of usage, tables, default
\*   tx:        the session's transaction status: idle, or inerror (inside a
\*              transaction block that hit an error and was not rolled back)
GrantKinds == {"usage", "tables", "default"}

Ok(d, tuples, n) == [db |-> d, err |-> "", tuples |-> tuples, row_count |-> n]
Err(d, e) == [db |-> d, err |-> e, tuples |-> {}, row_count |-> -1]
Aborted(d, e) == Err([d EXCEPT !.tx = "inerror"], e)

RoleExists(d, r) == r = Owner \/ r \in d.roles
TablesIn(d, s) == {t \in d.tables : t.schema = s}
TableAt(d, s, n) == {t \in d.tables : t.schema = s /\ t.name = n}

\* BEGIN; GRANT USAGE ON SCHEMA; GRANT privs ON ALL TABLES IN SCHEMA;
\* ALTER DEFAULT PRIVILEGES ... GRANT privs ON TABLES; COMMIT;
\* sent as one string: an error after BEGIN leaves the transaction block
\* aborted and the rest of the string, COMMIT included, is skipped
RunAddCollaborator(d, env, repo, user, privs) ==
    IF repo \notin d.schemas THEN Aborted(d, "invalid_schema_name")
    ELSE IF ~RoleExists(d, user) THEN Aborted(d, "undefined_object")
    ELSE IF ~(privs \subseteq TablePrivileges) THEN Aborted(d, "invalid_grant_operation")
    ELSE IF "ALTER_DEFAULT_PRIVILEGES" \in env.faults THEN Aborted(d, "operational_error")
    ELSE Ok([d EXCEPT !.grants = @ \cup
                 {[repo |-> repo, user |-> user, kind |-> k] : k \in GrantKinds}],
            {}, -1)

\* BEGIN; REVOKE ALL ON ALL TABLES; REVOKE ALL ON SCHEMA;
\* ALTER DEFAULT PRIVILEGES ... REVOKE ALL; COMMIT;
RunDeleteCollaborator(d, repo, user) ==
    IF repo \notin d.schemas THEN Aborted(d, "invalid_schema_name")
    ELSE IF ~RoleExists(d, user) THEN Aborted(d, "undefined_object")
    ELSE Ok([d EXCEPT !.grants = {g \in @ : ~(g.repo = repo /\ g.user = user)}],
            {}, -1)

RunDropSchema(d, repo, option) ==
    IF repo \notin d.schemas THEN Err(d, "invalid_schema_name")
    ELSE IF option # CASCADE /\ TablesIn(d, repo) # {}
         THEN Err(d, "dependent_objects_still_exist")
    ELSE Ok([d EXCEPT !.schemas = @ \ {repo},
                      !.tables = {t \in @ : t.schema # repo},
                      !.grants = {g \in @ : g.repo # repo}], {}, -1)

RunCopyFrom(d, env, table) ==
    IF TableAt(d, PUBLIC, table) = {} THEN Err(d, "undefined_table")
    ELSE IF env.badFile THEN Err(d, "bad_copy_file_format")
    ELSE Ok([d EXCEPT !.tables =
                 {IF t.schema = PUBLIC /\ t.name = table /\ t.rows < MaxRows
                  THEN [t EXCEPT !.rows = @ + 1] ELSE t : t \in @}], {}, 1)

RunDropTableIfExists(d, env, table) ==
    IF "DROP_TABLE" \in env.faults /\ TableAt(d, PUBLIC, table) # {}
    THEN Err(d, "dependent_objects_still_exist")
    ELSE Ok([d EXCEPT !.tables = @ \ TableAt(d, PUBLIC, table)], {}, -1)

RunCreateTable(d, schema, table) ==
    IF schema # PUBLIC /\ schema \notin d.schemas THEN Err(d, "invalid_schema_name")
    ELSE IF TableAt(d, schema, table) # {} THEN Err(d, "duplicate_table")
    ELSE Ok([d EXCEPT !.tables = @ \cup
                 {[schema |-> schema, name |-> table, rows |-> 0]}], {}, -1)

RunInsert(d, schema, table) ==
    IF TableAt(d, schema, table) = {} THEN Err(d, "undefined_table")
    ELSE Ok([d EXCEPT !.tables =
                 {IF t.schema = schema /\ t.name = table /\ t.rows < MaxRows
                  THEN [t EXCEPT !.rows = @ + 1] ELSE t : t \in @}], {}, 1)

Run(d, env, tmpl, a) ==
    CASE tmpl = "CREATE_SCHEMA" ->
            Ok([d EXCEPT !.schemas = @ \cup {Word(a[1])}], {}, -1)
      [] tmpl = "LIST_REPOS" ->
            Ok(d, IF a[1].text = Owner THEN d.schemas ELSE {}, Cardinality(d.schemas))
      [] tmpl = "DROP_SCHEMA" -> RunDropSchema(d, Word(a[1]), Word(a[2]))
      [] tmpl = "ADD_COLLABORATOR" ->
            RunAddCollaborator(d, env, Word(a[1]), Word(a[2]), PrivList(a[3]))
      [] tmpl = "DELETE_COLLABORATOR" ->
            RunDeleteCollaborator(d, Word(a[1]), Word(a[2]))
      [] tmpl = "LIST_TABLES" ->
            LET names == {t.name : t \in TablesIn(d, a[1].text)}
            IN  Ok(d, names, Cardinality(names))
      [] tmpl = "LIST_VIEWS" -> Ok(d, {}, 0)
      [] tmpl = "GET_SCHEMA" ->
            LET n == Cardinality(TableAt(d, a[2].text, a[1].text))
            IN  Ok(d, {"column" : i \in 1..n}, n)
      [] tmpl = "CREATE_ROLE" ->
            IF RoleExists(d, Word(a[1])) THEN Err(d, "duplicate_object")
            ELSE Ok([d EXCEPT !.roles = @ \cup {Word(a[1])}], {}, -1)
      [] tmpl = "CREATE_DATABASE" ->
            IF Word(a[1]) \in d.databases \cup {BaseDb} THEN Err(d, "duplicate_database")
            ELSE Ok([d EXCEPT !.databases = @ \cup {Word(a[1])}], {}, -1)
      [] tmpl = "ALTER_DATABASE_OWNER" ->
            IF Word(a[1]) \notin d.databases THEN Err(d, "invalid_catalog_name")
            ELSE IF ~RoleExists(d, Word(a[2])) THEN Err(d, "undefined_object")
            ELSE Ok(d, {}, -1)
      [] tmpl = "DROP_DATABASE" ->
            IF Word(a[1]) \notin d.databases THEN Err(d, "invalid_catalog_name")
            ELSE Ok([d EXCEPT !.databases = @ \ {Word(a[1])}], {}, -1)
      [] tmpl = "DROP_ROLE" ->
            IF Word(a[1]) \notin d.roles THEN Err(d, "undefined_object")
            ELSE IF \/ Word(a[1]) \in d.databases
                    \/ \E g \in d.grants : g.user = Word(a[1])
                 THEN Err(d, "dependent_objects_still_exist")
            ELSE Ok([d EXCEPT !.roles = @ \ {Word(a[1])}], {}, -1)
      [] tmpl = "ALTER_ROLE_PASSWORD" ->
            IF ~RoleExists(d, Word(a[1])) THEN Err(d, "undefined_object")
            ELSE Ok(d, {}, -1)
      [] tmpl = "LIST_COLLABORATORS" ->
            LET acl == {g.user : g \in {x \in d.grants :
                                           x.repo = a[1].text /\ x.kind = "usage"}}
            IN  Ok(d, acl, Cardinality(acl))
      [] tmpl = "HAS_PRIVILEGE" ->
            IF ~RoleExists(d, a[1].text) THEN Err(d, "undefined_object")
            ELSE Ok(d, {"t"}, 1)
      [] tmpl = "COPY_TABLE_TO" ->
            IF TableAt(d, PUBLIC, Word(a[1])) = {} THEN Err(d, "undefined_table")
            ELSE Ok(d, {}, 1)
      [] tmpl = "COPY_QUERY_TO" ->
            IF env.accepts THEN Ok(d, {}, 1) ELSE Err(d, "syntax_error")
      [] tmpl = "COPY_FROM" -> RunCopyFrom(d, env, Word(a[1]))
      [] tmpl = "DROP_TABLE_IF_EXISTS" -> RunDropTableIfExists(d, env, Word(a[1]))
      [] tmpl = "CREATE_TABLE" -> RunCreateTable(d, Word(a[1]), Word(a[2]))
      [] tmpl = "INSERT" -> RunInsert(d, Word(a[1]), Word(a[2]))
      [] OTHER -> Ok([d EXCEPT !.tx = "idle"], {}, -1)

\* the whole statement string is parsed before any of it runs; inside an
\* aborted transaction block every command but ROLLBACK is refused
Server(d, env, tmpl, a) ==
    IF ~SyntaxOk(tmpl, a) THEN Err(d, "syntax_error")
    ELSE IF d.tx = "inerror" /\ tmpl # "ROLLBACK" THEN Err(d, "in_failed_sql_transaction")
    ELSE Run(d, env, tmpl, a)

-----------------------------------------------------------------------------
(* PGBackend: a call in progress *)

\* what the server and the file system do to a call from outside the code:
\*   badFile: the source file of an import is malformed
\*   faults:  the statements that fail for a reason the catalog does not show
\*   accepts: the server accepts the query text of an export
Env0 == [badFile |-> FALSE, faults |-> {}, accepts |-> TRUE]

NoResult == [status |-> FALSE, row_count |-> 0, tuples |-> {}]

\* the state a call starts from; exc = "" while no exception is raised
Begin(env) ==
    [db |-> db, dirs |-> dirs, closed |-> connection.closed, env |-> env,
     sent |-> <<>>, validated |-> {}, exc |-> "", cause |-> "", res |-> NoResult]

Raise(c, e) == IF c.exc # "" THEN c ELSE [c EXCEPT !.exc = e]

check_for_injections(c, noun) ==
    IF c.exc # "" THEN c
    ELSE IF RegexMatches(noun) THEN [c EXCEPT !.validated = @ \cup {noun}]
    ELSE [c EXCEPT !.exc = "ValueError"]

RECURSIVE check_each(_, _)
check_each(c, nouns) ==
    IF nouns = <<>> THEN c
    ELSE check_each(check_for_injections(c, Head(nouns)), Tail(nouns))

\* conn.cursor() fails on a closed connection; cur.execute sends the statement
\* and raises the server's error; fetchall failing for want of a result set
\* is swallowed
execute_sql(c, tmpl, params) ==
    IF c.exc # "" THEN c
    ELSE IF c.closed THEN [c EXCEPT !.exc = "InterfaceError"]
    ELSE LET r == Server(c.db, c.env, tmpl, Mogrify(params))
         IN  [c EXCEPT !.db = r.db,
                       !.sent = Append(@, [tmpl |-> tmpl, params |-> params]),
                       !.exc = r.err,
                       !.res = IF r.err = "" 
                               THEN [status |-> TRUE, row_count |-> r.row_count,
                                     tuples |-> r.tuples]
                               ELSE @]

-----------------------------------------------------------------------------
(* PGBackend: the operations *)

create_repo(c, repo) ==
    execute_sql(check_for_injections(c, repo), "CREATE_SCHEMA",
                <<AsIs(repo, {repo}), AsIs(Owner, {Owner})>>)

list_repos(c) == execute_sql(c, "LIST_REPOS", <<Bound(Owner)>>)

delete_repo(c, repo, force) ==
    LET c1 == check_for_injections(c, repo)
        c2 == IF c1.exc = "" THEN [c1 EXCEPT !.dirs = @ \ {repo}] ELSE c1
    IN  execute_sql(c2, "DROP_SCHEMA",
                    <<AsIs(repo, {repo}), IF force THEN AsIs(CASCADE, {}) ELSE None>>)

add_collaborator(c, repo, username, privileges) ==
    LET c1 == check_for_injections(c, repo)
        c2 == check_for_injections(c1, username)
        c3 == check_each(c2, privileges)
        privileges_str == join(CommaSpace, privileges)
        r == AsIs(repo, {repo})
        u == AsIs(username, {username})
        p == AsIs(privileges_str, Range(privileges))
    IN  execute_sql(c3, "ADD_COLLABORATOR", <<r, u, p, r, u, r, p, u>>)

delete_collaborator(c, repo, username) ==
    LET c1 == check_for_injections(c, repo)
        c2 == check_for_injections(c1, username)
        r == AsIs(repo, {repo})
        u == AsIs(username, {username})
    IN  execute_sql(c2, "DELETE_COLLABORATOR", <<r, u, r, u, r, u>>)

list_tables(c, repo) ==
    LET c1 == list_repos(c)
        c2 == check_for_injections(c1, repo)
        c3 == IF repo \notin c1.res.tuples THEN Raise(c2, "LookupError") ELSE c2
    IN  execute_sql(c3, "LIST_TABLES", <<Bound(repo)>>)

list_views(c, repo) ==
    LET c1 == list_repos(c)
        c2 == check_for_injections(c1, repo)
        c3 == IF repo \notin c1.res.tuples THEN Raise(c2, "LookupError") ELSE c2
    IN  execute_sql(c3, "LIST_VIEWS", <<Bound(repo)>>)

get_schema(c, table) ==
    LET tokens == split(table, ".")
        n == Len(tokens)
        c1 == check_each(c, tokens)
    IN  IF n < 2 THEN Raise(c1, "NameError")
        ELSE LET c2 == execute_sql(c1, "GET_SCHEMA",
                                   <<Bound(tokens[n]), Bound(tokens[n - 1])>>)
             IN  IF c2.exc = "" /\ c2.res.row_count < 1 THEN Raise(c2, "NameError")
                 ELSE c2

create_user_database(c, username) ==
    LET c1 == check_for_injections(c, username)
        u == AsIs(username, {username})
        c2 == execute_sql(c1, "CREATE_DATABASE", <<u>>)
    IN  execute_sql(c2, "ALTER_DATABASE_OWNER", <<u, u>>)

create_user(c, username, password, create_db) ==
    LET c1 == check_for_injections(c, username)
        c2 == execute_sql(c1, "CREATE_ROLE",
                          <<AsIs(username, {username}), Bound(password)>>)
    IN  IF create_db THEN create_user_database(c2, username) ELSE c2

remove_database(c, username) ==
    execute_sql(check_for_injections(c, username), "DROP_DATABASE",
                <<AsIs(username, {username})>>)

remove_user(c, username, remove_db) ==
    LET c1 == IF remove_db THEN remove_database(c, username) ELSE c
        c2 == check_for_injections(c1, username)
    IN  execute_sql(c2, "DROP_ROLE", <<AsIs(username, {username})>>)

change_password(c, username, password) ==
    execute_sql(check_for_injections(c, username), "ALTER_ROLE_PASSWORD",
                <<AsIs(username, {username}), Bound(password)>>)

list_collaborators(c, base, repo) ==
    execute_sql(c, "LIST_COLLABORATORS", <<Bound(repo)>>)

has_base_privilege(c, login, privilege) ==
    execute_sql(c, "HAS_PRIVILEGE", <<Bound(login), Bound(privilege)>>)

has_repo_privilege(c, login, repo, privilege) ==
    execute_sql(c, "HAS_PRIVILEGE", <<Bound(login), Bound(repo), Bound(privilege)>>)

has_table_privilege(c, login, table, privilege) ==
    execute_sql(c, "HAS_PRIVILEGE", <<Bound(login), Bound(table), Bound(privilege)>>)

has_column_privilege(c, login, table, column, privilege) ==
    execute_sql(c, "HAS_PRIVILEGE",
                <<Bound(login), Bound(table), Bound(column), Bound(privilege)>>)

header_option(header) == IF header THEN HEADER ELSE EmptyStr

export_table(c, table_name, file_format, header) ==
    LET c1 == check_for_injections(c, table_name)
        c2 == check_for_injections(c1, file_format)
    IN  execute_sql(c2, "COPY_TABLE_TO",
                    <<AsIs(table_name, {table_name}), Bound(Path),
                      AsIs(file_format, {file_format}),
                      AsIs(header_option(header), {}), Bound(Comma)>>)

\* the query kept whole
TruncateKeepsAll(query) == query \o <<";">>

\* query.split(';')[0] + ';'
Truncate(query) == split(query, ";")[1] \o <<";">>

export_query(c, query, file_format, header) ==
    LET c1 == check_for_injections(c, file_format)
        c2 == check_for_injections(c1, header_option(header))
    IN  execute_sql(c2, "COPY_QUERY_TO",
                    <<AsIs(Truncate(query), {query}), Bound(Path),
                      AsIs(file_format, {file_format}),
                      AsIs(header_option(header), {}), Bound(Comma)>>)

\* try: the load; except Exception, e: the cleanup drop, then ImportError(e).
\* An exception of the cleanup drop leaves the handler in place of ImportError
import_file(c, table_name, file_format, header) ==
    LET c1 == check_for_injections(c, table_name)
        c2 == check_for_injections(c1, file_format)
        c3 == check_for_injections(c2, header_option(header))
        c4 == execute_sql(c3, "COPY_FROM",
                          <<AsIs(table_name, {table_name}), Bound(Path),
                            AsIs(file_format, {file_format}),
                            AsIs(header_option(header), {}), Bound(Comma),
                            Bound(Encoding), Bound(Quote)>>)
    IN  IF c3.exc # "" \/ c4.exc = "" THEN c4
        ELSE LET c5 == execute_sql([c4 EXCEPT !.exc = ""], "DROP_TABLE_IF_EXISTS",
                                   <<AsIs(table_name, {table_name})>>)
             IN  IF c5.exc # "" THEN c5
                 ELSE [c5 EXCEPT !.exc = "ImportError", !.cause = c4.exc]

-----------------------------------------------------------------------------
(* The inputs the calls are explored with *)

Nouns == {NameA, NameBad}
Formats == {CSV, NameBad}
PrivilegeLists == {<<>>, <<SELECT>>, <<SELECT, INSERT>>, <<USAGE>>}
QualifiedNames == {NameA, NameA \o <<".">> \o NameA,
                   NameA \o <<".">> \o NameA \o <<".">> \o NameA,
                   NameBad \o <<".">> \o NameA}
Queries == Strings({"q", ";"}, MaxQueryLen)
Targets == {BaseDb, MissingDb}

-----------------------------------------------------------------------------
(* The state after PGBackend(user, password, repo_base=BaseDb) *)

NoCall == [op |-> "idle", args |-> <<>>]

Init ==
    /\ db = [schemas |-> {}, tables |-> {}, roles |-> {}, databases |-> {},
             grants |-> {}, tx |-> "idle"]
    /\ dirs = {}
    /\ connection = [db |-> BaseDb, closed |-> FALSE]
    /\ repo_base = BaseDb
    /\ sessions = 1
    /\ call = NoCall
    /\ outcome = [exc |-> "", cause |-> ""]
    /\ sent = <<>>
    /\ validated = {}

\* a call returns or raises: its effects, and what is remembered of it
Finish(op, args, c) ==
    /\ db' = c.db
    /\ dirs' = c.dirs
    /\ sent' = c.sent
    /\ validated' = c.validated
    /\ outcome' = [exc |-> c.exc, cause |-> c.cause]
    /\ call' = [op |-> op, args |-> args]
    /\ UNCHANGED <<connection, repo_base, sessions>>

\* the caller takes the result or the exception of the call; the next call
\* starts from here
Return ==
    /\ call # NoCall
    /\ call' = NoCall
    /\ outcome' = [exc |-> "", cause |-> ""]
    /\ sent' = <<>>
    /\ validated' = {}
    /\ UNCHANGED <<db, dirs, connection, repo_base, sessions>>

-----------------------------------------------------------------------------
(* Connection handling *)

\* reset_connection: self.repo_base is set, then __open_connection__ connects
\* and only then rebinds self.connection.  The old connection object is never
\* closed by the code: its session ends at once when this was the last
\* reference to it (released), and stays live otherwise
CallResetConnection(target, released) ==
    LET freed == IF released /\ ~connection.closed THEN 1 ELSE 0
    IN  /\ call = NoCall
        /\ repo_base' = target
        /\ call' = [op |-> "reset_connection", args |-> [repo_base |-> target]]
        /\ sent' = <<>>
        /\ validated' = {}
        /\ UNCHANGED dirs
        \* released is a choice only where there is an open old session to release
        /\ IF target \in db.databases \cup {BaseDb}
           THEN /\ sessions - freed + 1 <= MaxSessions
                /\ connection.closed => released
                /\ sessions' = sessions - freed + 1
                /\ connection' = [db |-> target, closed |-> FALSE]
                /\ db' = [db EXCEPT !.tx = "idle"]
                /\ outcome' = [exc |-> "", cause |-> ""]
           ELSE /\ released
                /\ outcome' = [exc |-> "OperationalError", cause |-> ""]
                /\ UNCHANGED <<sessions, connection, db>>

\* close_connection: connection.close(); closing twice is allowed
CallCloseConnection ==
    /\ call = NoCall
    /\ connection' = [connection EXCEPT !.closed = TRUE]
    /\ sessions' = IF connection.closed THEN sessions ELSE sessions - 1
    /\ db' = [db EXCEPT !.tx = "idle"]
    /\ call' = [op |-> "close_connection", args |-> [repo_base |-> repo_base]]
    /\ outcome' = [exc |-> "", cause |-> ""]
    /\ sent' = <<>>
    /\ validated' = {}
    /\ UNCHANGED <<dirs, repo_base>>

\* the garbage collector finalises a connection object nothing refers to any
\* more, which ends its session
Finalize ==
    /\ call = NoCall
    /\ sessions > (IF connection.closed THEN 0 ELSE 1)
    /\ sessions' = sessions - 1
    /\ UNCHANGED <<db, dirs, connection, repo_base, call, outcome, sent, validated>>

-----------------------------------------------------------------------------
(* The calls *)

CallCheckForInjections(noun) ==
    /\ call = NoCall
    /\ Finish("_check_for_injections", [noun |-> noun],
           check_for_injections(Begin(Env0), noun))

\* execute_sql called with a statement of the caller's own
CallExecuteSql(tmpl, schema, table) ==
    LET text(v) == [k |-> "text", v |-> v, from |-> {}]
    IN  /\ call = NoCall
        /\ Finish("execute_sql", [query |-> tmpl, schema |-> schema, table |-> table],
                  execute_sql(Begin(Env0), tmpl, <<text(schema), text(table)>>))

CallCreateRepo(repo) ==
    /\ call = NoCall
    /\ Finish("create_repo", [repo |-> repo], create_repo(Begin(Env0), repo))

CallListRepos ==
    /\ call = NoCall
    /\ Finish("list_repos", [user |-> Owner], list_repos(Begin(Env0)))

CallDeleteRepo(repo, force) ==
    /\ call = NoCall
    /\ Finish("delete_repo", [repo |-> repo, force |-> force],
           delete_repo(Begin(Env0), repo, force))

CallAddCollaborator(repo, username, privileges, env) ==
    /\ call = NoCall
    /\ Finish("add_collaborator",
           [repo |-> repo, username |-> username, privileges |-> privileges],
           add_collaborator(Begin(env), repo, username, privileges))

CallDeleteCollaborator(repo, username) ==
    /\ call = NoCall
    /\ Finish("delete_collaborator", [repo |-> repo, username |-> username],
           delete_collaborator(Begin(Env0), repo, username))

CallListTables(repo) ==
    /\ call = NoCall
    /\ Finish("list_tables", [repo |-> repo], list_tables(Begin(Env0), repo))

CallListViews(repo) ==
    /\ call = NoCall
    /\ Finish("list_views", [repo |-> repo], list_views(Begin(Env0), repo))

CallGetSchema(table) ==
    /\ call = NoCall
    /\ Finish("get_schema", [table |-> table], get_schema(Begin(Env0), table))

CallCreateUser(username, create_db) ==
    /\ call = NoCall
    /\ Finish("create_user", [username |-> username, create_db |-> create_db],
           create_user(Begin(Env0), username, Password, create_db))

CallRemoveUser(username, remove_db) ==
    /\ call = NoCall
    /\ Finish("remove_user", [username |-> username, remove_db |-> remove_db],
           remove_user(Begin(Env0), username, remove_db))

CallChangePassword(username) ==
    /\ call = NoCall
    /\ Finish("change_password", [username |-> username],
           change_password(Begin(Env0), username, Password))

CallListCollaborators(repo) ==
    /\ call = NoCall
    /\ Finish("list_collaborators", [repo |-> repo], list_collaborators(Begin(Env0), repo_base, repo))

CallHasBasePrivilege(login) ==
    /\ call = NoCall
    /\ Finish("has_base_privilege", [login |-> login],
           has_base_privilege(Begin(Env0), login, USAGE))

CallHasRepoPrivilege(login) ==
    /\ call = NoCall
    /\ Finish("has_repo_privilege", [login |-> login],
           has_repo_privilege(Begin(Env0), login, NameA, USAGE))

CallHasTablePrivilege(login) ==
    /\ call = NoCall
    /\ Finish("has_table_privilege", [login |-> login],
           has_table_privilege(Begin(Env0), login, NameA, SELECT))

CallHasColumnPrivilege(login) ==
    /\ call = NoCall
    /\ Finish("has_column_privilege", [login |-> login],
           has_column_privilege(Begin(Env0), login, NameA, NameA, SELECT))

CallExportTable(table_name, file_format, header) ==
    /\ call = NoCall
    /\ Finish("export_table",
           [table_name |-> table_name, file_format |-> file_format, header |-> header],
           export_table(Begin(Env0), table_name, file_format, header))

CallExportQuery(query, file_format, header, env) ==
    /\ call = NoCall
    /\ Finish("export_query",
           [query |-> query, file_format |-> file_format, header |-> header],
           export_query(Begin(env), query, file_format, header))

CallImportFile(table_name, file_format, header, env) ==
    /\ call = NoCall
    /\ Finish("import_file",
           [table_name |-> table_name, file_format |-> file_format, header |-> header],
           import_file(Begin(env), table_name, file_format, header))

\* the rest of the application creates the directory of a repo
MakeRepoDir(repo) ==
    /\ call = NoCall
    /\ repo \in db.schemas \ dirs
    /\ dirs' = dirs \cup {repo}
    /\ UNCHANGED <<db, connection, repo_base, sessions, call, outcome, sent, validated>>

-----------------------------------------------------------------------------

\* the bulk transfers
NextTransfer ==
    \/ \E table_name \in Nouns, file_format \in Formats, header \in BOOLEAN :
          CallExportTable(table_name, file_format, header)
    \/ \E query \in Queries, file_format \in Formats, header \in BOOLEAN,
          accepts \in BOOLEAN :
          CallExportQuery(query, file_format, header, [Env0 EXCEPT !.accepts = accepts])
    \/ \E table_name \in Nouns, file_format \in Formats, header \in BOOLEAN,
          badFile \in BOOLEAN, faults \in {{}, {"DROP_TABLE"}} :
          CallImportFile(table_name, file_format, header,
                         [Env0 EXCEPT !.badFile = badFile, !.faults = faults])

Next ==
    \/ \E t \in Targets, released \in BOOLEAN : CallResetConnection(t, released)
    \/ CallCloseConnection
    \/ Finalize
    \/ \E noun \in Nouns : CallCheckForInjections(noun)
    \/ \E tmpl \in {"CREATE_TABLE", "INSERT"}, s \in {PUBLIC, NameA} :
          CallExecuteSql(tmpl, s, NameA)
    \/ CallExecuteSql("ROLLBACK", EmptyStr, EmptyStr)
    \/ \E repo \in Nouns : CallCreateRepo(repo)
    \/ CallListRepos
    \/ \E repo \in Nouns, force \in BOOLEAN : CallDeleteRepo(repo, force)
    \/ \E repo \in Nouns, username \in Nouns, privileges \in PrivilegeLists,
          faults \in {{}, {"ALTER_DEFAULT_PRIVILEGES"}} :
          CallAddCollaborator(repo, username, privileges, [Env0 EXCEPT !.faults = faults])
    \/ \E repo \in Nouns, username \in Nouns : CallDeleteCollaborator(repo, username)
    \/ \E repo \in Nouns : CallListTables(repo)
    \/ \E repo \in Nouns : CallListViews(repo)
    \/ \E table \in QualifiedNames : CallGetSchema(table)
    \/ \E username \in Nouns, create_db \in BOOLEAN : CallCreateUser(username, create_db)
    \/ \E username \in Nouns, remove_db \in BOOLEAN : CallRemoveUser(username, remove_db)
    \/ \E username \in Nouns : CallChangePassword(username)
    \/ \E repo \in Nouns : CallListCollaborators(repo)
    \/ \E login \in Nouns : CallHasBasePrivilege(login)
    \/ \E login \in Nouns : CallHasRepoPrivilege(login)
    \/ \E login \in Nouns : CallHasTablePrivilege(login)
    \/ \E login \in Nouns : CallHasColumnPrivilege(login)
    \/ \E repo \in Nouns : MakeRepoDir(repo)
    \/ NextTransfer
    \/ Return

Spec == Init /\ [][Next]_vars

\* the identifier check on its own, over every string of the alphabet
NextValidator ==
    \/ \E noun \in Strings(Alphabet, MaxLen) : CallCheckForInjections(noun)
    \/ Return

SpecValidator == Init /\ [][NextValidator]_vars

-----------------------------------------------------------------------------
(* The claims *)

\* [A-Za-z0-9]([A-Za-z0-9_-]*[A-Za-z0-9])?
AlphaNum == Upper \cup Lower \cup Digits
WellFormed(token) ==
    /\ Len(token) >= 1
    /\ \A i \in 1..Len(token) : token[i] \in AlphaNum \cup {"-", "_"}
    /\ token[1] \in AlphaNum
    /\ token[Len(token)] \in AlphaNum

HoldsGrant(d, repo, user) == \E g \in d.grants : g.repo = repo /\ g.user = user

\* the errors one of the three steps of add_collaborator fails with
StepErrors == {"invalid_schema_name", "undefined_object", "invalid_grant_operation",
               "operational_error"}

\* C1: when a step of add_collaborator fails, then after the call the
\* connection is in no open or aborted transaction and the user, who held no
\* grant on the repo before, holds none
C1_AllOrNothing ==
    [][(/\ call'.op = "add_collaborator"
        /\ outcome'.exc \in StepErrors
        /\ ~HoldsGrant(db, call'.args.repo, call'.args.username))
       => (/\ db'.tx = "idle"
           /\ ~HoldsGrant(db', call'.args.repo, call'.args.username))]_vars

\* C2: the identifier check succeeds on exactly the well-formed tokens
C2_ValidatorAcceptsExactlyWellFormed ==
    call.op = "_check_for_injections"
        => (outcome.exc = "" <=> WellFormed(call.args.noun))

\* C3: every caller-supplied string written raw into a statement has passed
\* the identifier check earlier in the same call
C3_RawIdentifiersValidated ==
    \A i \in 1..Len(sent) : \A j \in 1..Len(sent[i].params) :
        sent[i].params[j].k = "AsIs" => sent[i].params[j].from \subseteq validated

\* C4: delete_repo of an existing repo over a usable connection: without
\* force it drops an empty schema and refuses a non-empty one with a
\* dependency error, leaving it in place; with force the schema, its tables
\* and its directory are gone
C4_DeleteRepo ==
    [][(/\ call'.op = "delete_repo"
        /\ call'.args.repo \in db.schemas
        /\ ~connection.closed /\ db.tx = "idle")
       => LET repo == call'.args.repo
              gone == /\ outcome'.exc = ""
                      /\ repo \notin db'.schemas
                      /\ TablesIn(db', repo) = {}
          IN  IF call'.args.force THEN gone /\ repo \notin dirs'
              ELSE IF TablesIn(db, repo) = {} THEN gone
              ELSE /\ outcome'.exc = "dependent_objects_still_exist"
                   /\ repo \in db'.schemas
                   /\ TablesIn(db', repo) = TablesIn(db, repo)]_vars

\* C5: when the load of import_file fails, the call ends with ImportError
\* carrying the load's error, whether or not the cleanup drop succeeds
C5_ImportFailureKeepsCause ==
    [][(/\ call'.op = "import_file"
        /\ db.tx = "idle"
        /\ Len(sent') >= 1
        /\ outcome'.exc # "")
       => (/\ outcome'.exc = "ImportError"
           /\ outcome'.cause \in {"undefined_table", "bad_copy_file_format",
                                  "syntax_error"})]_vars

\* the part of a query before its first ';', followed by one ';'
IsTruncationOf(text, query) ==
    \E n \in 0..Len(query) :
        /\ \A i \in 1..n : query[i] # ";"
        /\ n = Len(query) \/ query[n + 1] = ";"
        /\ text = SubSeq(query, 1, n) \o <<";">>

\* C6: export_query embeds the query cut at its first ';' and closed by one
\* ';', sends nothing else, and changes nothing in the database
C6_QueryTruncated ==
    [][call'.op = "export_query"
       => (/\ db' = db
           /\ Len(sent') <= 1
           /\ \A i \in 1..Len(sent') :
                 /\ sent'[i].tmpl = "COPY_QUERY_TO"
                 /\ IsTruncationOf(sent'[i].params[1].v, call'.args.query))]_vars

\* an export of "q;q" that the server ran: "q;" was sent and the table is there
C6_Witness ==
    /\ call.op = "export_query"
    /\ call.args.query = <<"q", ";", "q">>
    /\ outcome.exc = ""
    /\ Len(sent) = 1
    /\ sent[1].params[1].v = <<"q", ";">>
    /\ TableAt(db, PUBLIC, NameA) # {}

\* C7: with a valid table name and format, the three transfers accept
\* header = TRUE and header = FALSE: no ValueError, and over an open
\* connection the copy statement is sent, with HEADER exactly when header
C7_HeaderFlagAccepted ==
    (/\ call.op \in {"export_table", "export_query", "import_file"}
     /\ call.args.file_format = CSV
     /\ call.op # "export_query" => call.args.table_name = NameA)
    => (/\ outcome.exc # "ValueError"
        /\ ~connection.closed =>
              /\ Len(sent) >= 1
              /\ sent[1].params[4].v = (IF call.args.header THEN HEADER ELSE EmptyStr))

\* C8: at most one session opened by the instance is live, and it is bound
\* to the instance's current target database
C8_OneSessionOnTarget ==
    /\ sessions <= 1
    /\ ~connection.closed => connection.db = repo_base

\* the names a call was given
NamesOf(c) ==
    CASE c.op \in {"create_repo", "delete_repo", "list_tables", "list_views"} ->
            {c.args.repo}
      [] c.op \in {"add_collaborator", "delete_collaborator"} ->
            {c.args.repo, c.args.username}
      [] c.op \in {"create_user", "remove_user", "change_password"} ->
            {c.args.username}
      [] c.op \in {"export_table", "import_file"} -> {c.args.table_name}
      [] c.op = "get_schema" -> Range(split(c.args.table, "."))
      [] OTHER -> {}

Malformed(c) == c.op = "get_schema" /\ Len(split(c.args.table, ".")) # 2

\* C9: a call given an invalid identifier or a malformed qualified name
\* raises the identifier or name error and sends no statement
C9_ErrorsBeforeAnyStatement ==
    ((\E n \in NamesOf(call) : ~WellFormed(n)) \/ Malformed(call))
    => (/\ outcome.exc \in {"ValueError", "NameError"}
        /\ sent = <<>>)

\* C10: an import_file whose load fails leaves a table that existed before
\* the call in place, with its rows
C10_FailedImportKeepsTable ==
    [][(/\ call'.op = "import_file"
        /\ TableAt(db, PUBLIC, call'.args.table_name) # {}
        /\ Len(sent') >= 1
        /\ outcome'.exc # "")
       => TableAt(db', PUBLIC, call'.args.table_name)
              = TableAt(db, PUBLIC, call'.args.table_name)]_vars

====
